---------------------------- MODULE Spec2Model ----------------------------
(***************************************************************************)
(* Model of examples/pdf_service/test-api.py: the asynchronous job         *)
(* lifecycle (test_async_generation), the synchronous single call          *)
(* (test_sync_generation) and the load run (test_load) that executes many  *)
(* lifecycles sequentially or on a ThreadPoolExecutor.                     *)
(*                                                                         *)
(* Three state machines share the lifecycle operators:                     *)
(*   MainSpec  the process from main() to sys.exit: run_all_tests, the     *)
(*             single health, sync and async tests, and the load run;      *)
(*   LifeSpec  one call of test_async_generation, one step per blocking    *)
(*             call (submit, sleep, status fetch, download);               *)
(*   Spec      one call of test_load; a lifecycle touches no state shared  *)
(*             with other lifecycles, so a task is visible to the run only *)
(*             when it starts and when it returns, and its outcome is the  *)
(*             result of running the lifecycle operators to completion     *)
(*             against one behaviour of the remote service.                *)
(***************************************************************************)
EXTENDS Integers, Sequences, FiniteSets

\* ------------------------------------------------------------ bounds ----
MaxCount == 3
MaxParallel == 3
MaxClock == 2

\* ----------------------------------------------------- program constants
max_attempts == 30

VARIABLES
    frame,       \* locals of the running test_async_generation call (LifeSpec)
    count,       \* test_load argument
    parallel,    \* test_load argument
    use_async,   \* test_load argument
    pc,          \* position of the thread that called test_load
    i,           \* loop variable of the submit comprehension / sequential loop
    success,     \* test_load local
    failed,      \* test_load local
    queue,       \* executor work queue (indices of submitted, unstarted tasks)
    nthreads,    \* worker threads the executor has spawned
    task,        \* per index: "pending" | "queued" | "running" | "done"
    result,      \* per index: "none" | "True" | "False" | "Raise"
    yielded,     \* futures already produced by as_completed
    runs,        \* per index: number of times generate_one(i) was started
    counted,     \* per index: number of times its outcome was added to a total
    start_time,  \* test_load local: time.time() at entry
    duration,    \* test_load local: time.time() - start_time
    rate,        \* test_load local: a quotient [num, den]
    args,        \* main: the parsed command line
    mpc,         \* main: position of main() / run_all_tests()
    health,      \* outcome of test_health(): "none" | "True" | "False" | "Raise"
    sync,        \* outcome of main's test_sync_generation() call, likewise
    exit_code    \* process exit status, -1 while the process runs

vars == <<frame, count, parallel, use_async, pc, i, success, failed, queue,
          nthreads, task, result, yielded, runs, counted,
          start_time, duration, rate, args, mpc, health, sync, exit_code>>

timeVars == <<start_time, duration, rate>>

loadVars == <<count, parallel, use_async, pc, i, success, failed, queue,
              nthreads, task, result, yielded, runs, counted, timeVars>>

mainVars == <<args, mpc, health, sync, exit_code>>

\* =========================================================================
\* The remote service as seen by one lifecycle
\* =========================================================================

\* POST /api/v1/jobs: 202 with a job_id, 202 without a usable body, any other
\* status, or a transport exception.
SubmitResponses == {"accepted", "accepted_malformed", "rejected", "exception"}

\* Values of status_data["status"] on a 200 response.
NonTerminal == {"queued", "processing", "unknown"}
Statuses == NonTerminal \cup {"completed", "failed"}

\* GET /api/v1/jobs/{id}: 200 with a status, 200 without a usable body, any
\* other HTTP status, or a transport exception.
FetchResponses == Statuses \cup {"malformed", "http_error", "exception"}

\* GET /api/v1/jobs/{id}/download: 200 and the artifact stored, 200 but
\* mkdir/write_bytes raises, any other HTTP status, or a transport exception.
DownloadResponses == {"200", "200_write_error", "http_error", "exception"}

\* POST /api/v1/generate, same shape as the download.
SyncResponses == {"200", "200_write_error", "http_error", "exception"}

\* =========================================================================
\* test_async_generation, as operators on the frame of one call
\* =========================================================================

\* Frame at function entry.  attempt/status are the Python locals; submits,
\* waits, fetches, downloads count the calls made; srv* record what the
\* service answered (srvFinal: the first status response that was not a
\* non-terminal 200, srvNonTerminal: the non-terminal 200s before it).
NewFrame ==
    [pc |-> "entry", attempt |-> 0, status |-> "unset",
     ret |-> "none", line |-> 0,
     submits |-> 0, waits |-> 0, fetches |-> 0, downloads |-> 0,
     srvSubmit |-> "none", srvNonTerminal |-> 0, srvFinal |-> "none",
     srvDownload |-> "none"]

\* return <v> at source line <ln>
Return(f, v, ln) == [f EXCEPT !.pc = "returned", !.ret = v, !.line = ln]

\* Lines 137-142, before the try block: an exception raised here is not
\* caught by the function and escapes to the caller.
Enter(f, escapes) ==
    IF escapes THEN [f EXCEPT !.pc = "returned", !.ret = "Raise", !.line = 137]
    ELSE [f EXCEPT !.pc = "submit"]

\* AfterLoop without the check of line 186: the download follows the loop
\* whatever the last status was.
AfterLoop_NoCheck(f) == [f EXCEPT !.pc = "download"]

\* AfterLoop that raises a timeout error instead of returning False.
AfterLoop_RaisesTimeout(f) ==
    IF f.status # "completed" THEN Return(f, "Raise", 188)
    ELSE [f EXCEPT !.pc = "download"]

\* Lines 186-196: after the loop, give up unless the last status is completed.
AfterLoop(f) ==
    IF f.status # "completed" THEN Return(f, "False", 188)
    ELSE [f EXCEPT !.pc = "download"]

\* NextAttempt with the range one too long: range(1, max_attempts + 2).
NextAttempt_OneMore(f) ==
    IF f.attempt <= max_attempts
    THEN [f EXCEPT !.attempt = @ + 1, !.pc = "sleep"]
    ELSE AfterLoop(f)

\* NextAttempt with the range one too short: range(1, max_attempts).
NextAttempt_OneFewer(f) ==
    IF f.attempt < max_attempts - 1
    THEN [f EXCEPT !.attempt = @ + 1, !.pc = "sleep"]
    ELSE AfterLoop(f)

\* Line 163: the for statement takes the next attempt of range(1, 31) or
\* leaves the loop when the range is exhausted.
NextAttempt(f) ==
    IF f.attempt < max_attempts
    THEN [f EXCEPT !.attempt = @ + 1, !.pc = "sleep"]
    ELSE AfterLoop(f)

\* SubmitOutcome without the return of line 155: a rejected submission goes
\* on to the polling loop.
SubmitOutcome_NoReturn(f, r) ==
    CASE r = "exception"          -> Return(f, "False", 210)
      [] r = "accepted_malformed" -> Return(f, "False", 210)
      [] OTHER                    -> NextAttempt(f)

\* Lines 153-159: what the function does with the submit response.
SubmitOutcome(f, r) ==
    CASE r = "exception"          -> Return(f, "False", 210)
      [] r = "rejected"           -> Return(f, "False", 155)
      [] r = "accepted_malformed" -> Return(f, "False", 210)
      [] OTHER                    -> NextAttempt(f)

\* Lines 146-159: the submit call.
DoSubmit(f, r) ==
    SubmitOutcome([f EXCEPT !.submits = @ + 1, !.srvSubmit = r], r)

\* DoSleep that waits only between fetches, not before the first one.
DoSleep_SkipFirst(f) ==
    [f EXCEPT !.waits = IF f.attempt = 1 THEN @ ELSE @ + 1, !.pc = "fetch"]

\* Line 164: time.sleep(1).
DoSleep(f) == [f EXCEPT !.waits = @ + 1, !.pc = "fetch"]

\* FetchOutcome without the elif branch of lines 182-184: a failed job is
\* polled again like a pending one.
FetchOutcome_NoFailedBranch(f, r) ==
    CASE r = "exception"  -> Return(f, "False", 210)
      [] r = "http_error" -> Return(f, "False", 174)
      [] r = "malformed"  -> Return(f, "False", 210)
      [] OTHER ->
           LET g == [f EXCEPT !.status = r] IN
           IF r = "completed" THEN AfterLoop(g)
           ELSE NextAttempt(g)

\* FetchOutcome without the break of line 181: polling goes on after
\* completed until the range is exhausted.
FetchOutcome_NoBreak(f, r) ==
    CASE r = "exception"  -> Return(f, "False", 210)
      [] r = "http_error" -> Return(f, "False", 174)
      [] r = "malformed"  -> Return(f, "False", 210)
      [] OTHER ->
           LET g == [f EXCEPT !.status = r] IN
           IF r = "failed" THEN Return(g, "False", 184)
           ELSE NextAttempt(g)

\* FetchOutcome that accepts only queued and processing as in progress and
\* gives up on any other status.
FetchOutcome_StrictStatus(f, r) ==
    CASE r = "exception"  -> Return(f, "False", 210)
      [] r = "http_error" -> Return(f, "False", 174)
      [] r = "malformed"  -> Return(f, "False", 210)
      [] OTHER ->
           LET g == [f EXCEPT !.status = r] IN
           IF r = "completed" THEN AfterLoop(g)
           ELSE IF r \in {"queued", "processing"} THEN NextAttempt(g)
           ELSE Return(g, "False", 184)

\* Lines 172-184: what the loop body does with the status response.
FetchOutcome(f, r) ==
    CASE r = "exception"  -> Return(f, "False", 210)
      [] r = "http_error" -> Return(f, "False", 174)
      [] r = "malformed"  -> Return(f, "False", 210)
      [] OTHER ->
           LET g == [f EXCEPT !.status = r] IN
           IF r = "completed" THEN AfterLoop(g)
           ELSE IF r = "failed" THEN Return(g, "False", 184)
           ELSE NextAttempt(g)

\* Lines 166-184: one status fetch.
DoFetch(f, r) ==
    FetchOutcome(
        [f EXCEPT !.fetches = @ + 1,
                  !.srvNonTerminal =
                      IF f.srvFinal = "none" /\ r \in NonTerminal
                      THEN @ + 1 ELSE @,
                  !.srvFinal =
                      IF f.srvFinal = "none" /\ r \notin NonTerminal
                      THEN r ELSE @],
        r)

\* DownloadOutcome without the status check of line 198: any response that
\* arrives is stored and reported as success.
DownloadOutcome_NoStatusCheck(f, r) ==
    CASE r = "200"             -> Return(f, "True", 203)
      [] r = "200_write_error" -> Return(f, "False", 210)
      [] r = "http_error"      -> Return(f, "True", 203)
      [] OTHER                 -> Return(f, "False", 210)

\* DownloadOutcome that goes back to polling when the download is refused.
DownloadOutcome_PollAgain(f, r) ==
    CASE r = "200"             -> Return(f, "True", 203)
      [] r = "200_write_error" -> Return(f, "False", 210)
      [] r = "http_error"      ->
           IF f.attempt < max_attempts
           THEN [f EXCEPT !.attempt = @ + 1, !.pc = "sleep"]
           ELSE Return(f, "False", 206)
      [] OTHER                 -> Return(f, "False", 210)

\* Lines 198-210: what the function does with the download response.
DownloadOutcome(f, r) ==
    CASE r = "200"             -> Return(f, "True", 203)
      [] r = "200_write_error" -> Return(f, "False", 210)
      [] r = "http_error"      -> Return(f, "False", 206)
      [] OTHER                 -> Return(f, "False", 210)

\* Lines 191-206: the download call.
DoDownload(f, r) ==
    DownloadOutcome([f EXCEPT !.downloads = @ + 1, !.srvDownload = r], r)

\* =========================================================================
\* A whole lifecycle against one behaviour of the service
\* =========================================================================

\* A behaviour of the service towards one async lifecycle: whether the code
\* before the try block raises, the submit response, `polls` status responses
\* of "processing" followed by `last` for every later fetch, and the download
\* response.
AsyncBehaviours ==
    [escapes : BOOLEAN, submit : SubmitResponses, polls : 0..max_attempts,
     last : FetchResponses, download : DownloadResponses]

\* The next statement of test_async_generation, answered by behaviour b.
Step(f, b) ==
    CASE f.pc = "entry"    -> Enter(f, b.escapes)
      [] f.pc = "submit"   -> DoSubmit(f, b.submit)
      [] f.pc = "sleep"    -> DoSleep(f)
      [] f.pc = "fetch"    -> DoFetch(f, IF f.fetches < b.polls
                                          THEN "processing" ELSE b.last)
      [] f.pc = "download" -> DoDownload(f, b.download)

RECURSIVE Run(_, _)
Run(f, b) == IF f.pc = "returned" THEN f ELSE Run(Step(f, b), b)

\* Lines 135-210: the value test_async_generation returns ("True", "False"),
\* or "Raise" when an exception escapes it.
test_async_generation(b) == Run(NewFrame, b).ret

\* A behaviour towards one sync call: the code before the try block raises
\* (lines 105-111), or the response of POST /api/v1/generate.
SyncBehaviours == [escapes : BOOLEAN, response : SyncResponses]

\* Lines 103-132.
test_sync_generation(b) ==
    IF b.escapes THEN "Raise"
    ELSE CASE b.response = "200"             -> "True"
           [] b.response = "200_write_error" -> "False"
           [] b.response = "http_error"      -> "False"
           [] OTHER                          -> "False"

AsyncOutcomes == {test_async_generation(b) : b \in AsyncBehaviours}
SyncOutcomes == {test_sync_generation(b) : b \in SyncBehaviours}

\* Lines 222-227: the outcomes generate_one(j) can have, over every behaviour
\* of the service.  The index only selects the invoice number of the payload.
generate_one(j, async) == IF async THEN AsyncOutcomes ELSE SyncOutcomes

\* =========================================================================
\* test_load
\* =========================================================================

\* Lifecycles that have started and not yet returned.
InFlight == {j \in 1..MaxCount : task[j] = "running"}

\* RecordFuture with an except branch that swallows the exception without
\* counting it.
RecordFuture_ExceptPass(res) ==
    CASE res = "True"  -> [s |-> success + 1, f |-> failed]
      [] res = "False" -> [s |-> success, f |-> failed + 1]
      [] OTHER         -> [s |-> success, f |-> failed]

\* RecordFuture that counts every future that produced a value as a success,
\* whatever the value.
RecordFuture_AnyValue(res) ==
    CASE res = "True"  -> [s |-> success + 1, f |-> failed]
      [] res = "False" -> [s |-> success + 1, f |-> failed]
      [] OTHER         -> [s |-> success, f |-> failed + 1]

\* Lines 233-239: try/if future.result()/else/except around the totals.
RecordFuture(res) ==
    CASE res = "True"  -> [s |-> success + 1, f |-> failed]
      [] res = "False" -> [s |-> success, f |-> failed + 1]
      [] OTHER         -> [s |-> success, f |-> failed + 1]

\* Lines 242-248: the same block of the sequential loop.
RecordCall(res) ==
    CASE res = "True"  -> [s |-> success + 1, f |-> failed]
      [] res = "False" -> [s |-> success, f |-> failed + 1]
      [] OTHER         -> [s |-> success, f |-> failed + 1]

\* MaySpawn of an executor sized by the number of tasks instead of parallel.
MaySpawn_PerTask == nthreads < count

\* Line 230: ThreadPoolExecutor(max_workers=parallel); the executor starts a
\* new worker thread on submit only while it has fewer than max_workers.
MaySpawn == nthreads < parallel

\* Readings of time.time(): a wall clock, which may stand still or be set
\* back between two readings.
Clock == 0..MaxClock

\* Lines 215-229: entry of test_load up to the choice of the branch.
LoadStart ==
    /\ pc = "start"
    /\ \E t \in Clock : start_time' = t
    /\ success' = 0 /\ failed' = 0 /\ i' = 1
    /\ pc' = IF parallel > 1 THEN "submit" ELSE "seq"
    /\ UNCHANGED <<mainVars, duration, rate, frame, count, parallel, use_async, queue, nthreads, task,
                   result, yielded, runs, counted>>

\* Line 231: executor.submit(generate_one, i) for the next i of
\* range(1, count + 1).  The work item is queued; the executor starts a worker
\* when it has none, and may start one more while below max_workers (whether
\* it does depends on its idle-worker bookkeeping).
Submit ==
    /\ pc = "submit" /\ i <= count
    /\ queue' = Append(queue, i)
    /\ task' = [task EXCEPT ![i] = "queued"]
    /\ \/ MaySpawn /\ nthreads' = nthreads + 1
       \/ nthreads > 0 /\ nthreads' = nthreads
    /\ i' = i + 1
    /\ UNCHANGED <<mainVars, timeVars, frame, count, parallel, use_async, pc, success, failed,
                   result, yielded, runs, counted>>

\* Lines 231-232: the comprehension is exhausted; as_completed starts.
SubmitEnd ==
    /\ pc = "submit" /\ i > count
    /\ pc' = "collect"
    /\ UNCHANGED <<mainVars, timeVars, frame, count, parallel, use_async, i, success, failed,
                   queue, nthreads, task, result, yielded, runs, counted>>

\* A free worker thread takes the oldest queued work item and calls
\* generate_one on it.
WorkerTake ==
    /\ queue # <<>>
    /\ Cardinality(InFlight) < nthreads
    /\ task' = [task EXCEPT ![Head(queue)] = "running"]
    /\ runs' = [runs EXCEPT ![Head(queue)] = @ + 1]
    /\ queue' = Tail(queue)
    /\ UNCHANGED <<mainVars, timeVars, frame, count, parallel, use_async, pc, i, success, failed,
                   nthreads, result, yielded, counted>>

\* generate_one returns or raises in a worker; the future holds the outcome.
WorkerFinish ==
    /\ pc \in {"submit", "collect"}
    /\ \E j \in InFlight :
         \E r \in generate_one(j, use_async) :
           /\ result' = [result EXCEPT ![j] = r]
           /\ task' = [task EXCEPT ![j] = "done"]
    /\ UNCHANGED <<mainVars, timeVars, frame, count, parallel, use_async, pc, i, success, failed,
                   queue, nthreads, yielded, runs, counted>>

\* Lines 232-239: as_completed yields a finished future not yielded before, in
\* no particular order, and the loop body records it.
Collect ==
    /\ pc = "collect"
    /\ \E j \in 1..count :
         /\ task[j] = "done" /\ j \notin yielded
         /\ yielded' = yielded \cup {j}
         /\ success' = RecordFuture(result[j]).s
         /\ failed' = RecordFuture(result[j]).f
         /\ counted' = [counted EXCEPT ![j] = @ + 1]
    /\ UNCHANGED <<mainVars, timeVars, frame, count, parallel, use_async, pc, i, queue, nthreads,
                   task, result, runs>>

\* Lines 230-239: every future was yielded; leaving the with block shuts the
\* executor down and joins its threads.
CollectEnd ==
    /\ pc = "collect" /\ yielded = 1..count
    /\ nthreads' = 0
    /\ pc' = "report"
    /\ UNCHANGED <<mainVars, timeVars, frame, count, parallel, use_async, i, success, failed,
                   queue, task, result, yielded, runs, counted>>

\* SeqCall that iterates over the indices in no particular order.
SeqCall_AnyOrder ==
    /\ pc = "seq" /\ i <= count
    /\ \E j \in 1..count :
         /\ task[j] = "pending"
         /\ task' = [task EXCEPT ![j] = "running"]
         /\ runs' = [runs EXCEPT ![j] = @ + 1]
    /\ UNCHANGED <<mainVars, timeVars, frame, count, parallel, use_async, pc, i, success, failed,
                   queue, nthreads, result, yielded, counted>>

\* Lines 241-243: the sequential loop calls generate_one(i).
SeqCall ==
    /\ pc = "seq" /\ i <= count /\ task[i] = "pending"
    /\ task' = [task EXCEPT ![i] = "running"]
    /\ runs' = [runs EXCEPT ![i] = @ + 1]
    /\ UNCHANGED <<mainVars, timeVars, frame, count, parallel, use_async, pc, i, success, failed,
                   queue, nthreads, result, yielded, counted>>

\* SeqReturn that leaves the loop at the first lifecycle that does not
\* succeed.
SeqReturn_StopOnFailure ==
    /\ pc = "seq" /\ i <= count /\ task[i] = "running"
    /\ \E r \in generate_one(i, use_async) :
         /\ result' = [result EXCEPT ![i] = r]
         /\ success' = RecordCall(r).s
         /\ failed' = RecordCall(r).f
         /\ i' = IF r = "True" THEN i + 1 ELSE count + 1
    /\ task' = [task EXCEPT ![i] = "done"]
    /\ counted' = [counted EXCEPT ![i] = @ + 1]
    /\ UNCHANGED <<mainVars, timeVars, frame, count, parallel, use_async, pc, queue, nthreads,
                   yielded, runs>>

\* Lines 242-248: generate_one(i) returns or raises and the outcome is
\* recorded; the loop moves to the next index.
SeqReturn ==
    /\ pc = "seq" /\ i <= count /\ task[i] = "running"
    /\ \E r \in generate_one(i, use_async) :
         /\ result' = [result EXCEPT ![i] = r]
         /\ success' = RecordCall(r).s
         /\ failed' = RecordCall(r).f
    /\ task' = [task EXCEPT ![i] = "done"]
    /\ counted' = [counted EXCEPT ![i] = @ + 1]
    /\ i' = i + 1
    /\ UNCHANGED <<mainVars, timeVars, frame, count, parallel, use_async, pc, queue, nthreads,
                   yielded, runs>>

\* Line 241: range(1, count + 1) is exhausted.
SeqEnd ==
    /\ pc = "seq" /\ i > count
    /\ pc' = "report"
    /\ UNCHANGED <<mainVars, timeVars, frame, count, parallel, use_async, i, success, failed,
                   queue, nthreads, task, result, yielded, runs, counted>>

\* Throughput computed from the successes instead of the total.
Throughput_OfSuccesses(n, d) ==
    IF d > 0 THEN [num |-> success, den |-> d] ELSE [num |-> 0, den |-> 1]

\* Line 251: rate = count / duration if duration > 0 else 0, the quotient
\* kept exact as numerator and denominator.
Throughput(n, d) ==
    IF d > 0 THEN [num |-> n, den |-> d] ELSE [num |-> 0, den |-> 1]

\* Lines 250-261: the clock is read again, the rate computed, the summary
\* printed, and test_load returns.
Report ==
    /\ pc = "report"
    /\ \E t \in Clock :
         /\ duration' = t - start_time
         /\ rate' = Throughput(count, t - start_time)
    /\ pc' = "done"
    /\ UNCHANGED <<mainVars, start_time, frame, count, parallel, use_async, i, success, failed,
                   queue, nthreads, task, result, yielded, runs, counted>>

\* main() is not part of the run: test_load or test_async_generation is
\* called directly.
IdleMain ==
    /\ args = [health |-> FALSE, sync |-> FALSE, async_test |-> FALSE,
               load |-> 0, parallel |-> 1, use_async |-> FALSE]
    /\ mpc = "idle" /\ health = "none" /\ sync = "none" /\ exit_code = -1

\* test_load(count, parallel, use_async) is called.
Init ==
    /\ frame = NewFrame
    /\ count \in 0..MaxCount
    /\ parallel \in 0..MaxParallel
    /\ use_async \in BOOLEAN
    /\ pc = "start" /\ i = 1 /\ success = 0 /\ failed = 0
    /\ queue = <<>> /\ nthreads = 0
    /\ task = [j \in 1..MaxCount |-> "pending"]
    /\ result = [j \in 1..MaxCount |-> "none"]
    /\ yielded = {}
    /\ runs = [j \in 1..MaxCount |-> 0]
    /\ counted = [j \in 1..MaxCount |-> 0]
    /\ start_time = 0 /\ duration = 0 /\ rate = [num |-> 0, den |-> 1]
    /\ IdleMain

Next ==
    \/ LoadStart \/ Submit \/ SubmitEnd \/ WorkerTake \/ WorkerFinish
    \/ Collect \/ CollectEnd \/ SeqCall \/ SeqReturn \/ SeqEnd \/ Report

Spec == Init /\ [][Next]_vars

\* =========================================================================
\* LifeSpec: one call of test_async_generation, step by step
\* =========================================================================

LifeEnter ==
    /\ frame.pc = "entry"
    /\ \E escapes \in BOOLEAN : frame' = Enter(frame, escapes)
    /\ UNCHANGED <<loadVars, mainVars>>

LifeSubmit ==
    /\ frame.pc = "submit"
    /\ \E r \in SubmitResponses : frame' = DoSubmit(frame, r)
    /\ UNCHANGED <<loadVars, mainVars>>

LifeSleep ==
    /\ frame.pc = "sleep"
    /\ frame' = DoSleep(frame)
    /\ UNCHANGED <<loadVars, mainVars>>

LifeFetch ==
    /\ frame.pc = "fetch"
    /\ \E r \in FetchResponses : frame' = DoFetch(frame, r)
    /\ UNCHANGED <<loadVars, mainVars>>

LifeDownload ==
    /\ frame.pc = "download"
    /\ \E r \in DownloadResponses : frame' = DoDownload(frame, r)
    /\ UNCHANGED <<loadVars, mainVars>>

IdleLoad ==
    /\ count = 0 /\ parallel = 1 /\ use_async = TRUE
    /\ pc = "idle" /\ i = 1 /\ success = 0 /\ failed = 0
    /\ queue = <<>> /\ nthreads = 0
    /\ task = [j \in 1..MaxCount |-> "pending"]
    /\ result = [j \in 1..MaxCount |-> "none"]
    /\ yielded = {}
    /\ runs = [j \in 1..MaxCount |-> 0]
    /\ counted = [j \in 1..MaxCount |-> 0]
    /\ start_time = 0 /\ duration = 0 /\ rate = [num |-> 0, den |-> 1]

LifeInit == frame = NewFrame /\ IdleLoad /\ IdleMain

LifeNext == LifeEnter \/ LifeSubmit \/ LifeSleep \/ LifeFetch \/ LifeDownload

LifeSpec == LifeInit /\ [][LifeNext]_vars

\* The blocking calls all return: time.sleep(1) ends and every request carries
\* a timeout, so a call that can be made is eventually made.
FairLifeSpec == LifeSpec /\ WF_vars(LifeNext)


\* =========================================================================
\* MainSpec: the process, from main() to sys.exit
\* =========================================================================

\* GET /health: 200 with a JSON body, 200 without one, any other status, or a
\* transport exception; `escapes`: the code before the try block raises.
HealthBehaviours ==
    [escapes : BOOLEAN,
     response : {"200", "200_malformed", "http_error", "exception"}]

\* Lines 87-100.
test_health(b) ==
    IF b.escapes THEN "Raise"
    ELSE CASE b.response = "200"           -> "True"
           [] b.response = "200_malformed" -> "False"
           [] b.response = "http_error"    -> "False"
           [] OTHER                        -> "False"

\* Lines 293-295: values of --load (0 also stands for an absent option, both
\* are falsy), --parallel and the flags.
ArgValues ==
    [health : BOOLEAN, sync : BOOLEAN, async_test : BOOLEAN,
     load : (-1)..MaxCount, parallel : 0..MaxParallel, use_async : BOOLEAN]

\* Line 300: a specific test was requested.
AnyTest ==
    args.health \/ args.sync \/ args.async_test \/ args.load # 0

\* Line 300-301: no specific test was requested, run_all_tests runs.
RunAll == ~AnyTest

\* Frame of a test_async_generation that has not been called.
IdleFrame == [NewFrame EXCEPT !.pc = "idle"]

\* Lines 302, 306, 310, 314: sys.exit(0 if success else 1); an exception
\* that escapes main ends the process with status 1 as well.
ExitStatus(outcome) == IF outcome = "True" THEN 0 ELSE 1

\* Exit status of a load run that reflects the failed lifecycles.
LoadExitStatus_FailedCount == IF failed > 0 THEN 1 ELSE 0

\* Line 318: sys.exit(0) after test_load.
LoadExitStatus == 0

\* run_all_tests that goes on to the generation tests whatever the health
\* check returned.
AfterHealth_Continue(outcome) ==
    IF RunAll THEN IF outcome = "Raise" THEN "exited" ELSE "sync"
    ELSE "exited"

\* Lines 269-274 and 304-306: where control goes after test_health: on to the
\* sync test in run_all_tests if the check passed, otherwise to sys.exit.
AfterHealth(outcome) ==
    IF RunAll /\ outcome = "True" THEN "sync" ELSE "exited"

\* run_all_tests that goes on to the async test whatever the sync test
\* returned.
AfterSync_Continue(outcome) ==
    IF RunAll THEN IF outcome = "Raise" THEN "exited" ELSE "async"
    ELSE "exited"

\* Lines 274-279 and 308-310: where control goes after test_sync_generation.
AfterSync(outcome) ==
    IF RunAll /\ outcome = "True" THEN "async" ELSE "exited"

\* Lines 297-317: main parses the arguments and calls the first test they
\* select: run_all_tests (which starts with test_health), test_health,
\* test_sync_generation, test_async_generation or test_load.
Dispatch ==
    /\ mpc = "main"
    /\ mpc' = IF RunAll \/ args.health THEN "health"
              ELSE IF args.sync THEN "sync"
              ELSE IF args.async_test THEN "async"
              ELSE "load"
    /\ frame' = IF mpc' = "async" THEN NewFrame ELSE frame
    /\ IF mpc' = "load"
       THEN /\ count' = args.load
            /\ parallel' = args.parallel
            /\ use_async' = args.use_async
            /\ pc' = "start"
       ELSE UNCHANGED <<count, parallel, use_async, pc>>
    /\ UNCHANGED <<i, success, failed, queue, nthreads, task, result,
                   yielded, runs, counted, timeVars, args, health, sync,
                   exit_code>>

\* Lines 269-271 and 304-306: test_health runs and its caller acts on the
\* outcome.
Health ==
    /\ mpc = "health"
    /\ \E b \in HealthBehaviours :
         /\ health' = test_health(b)
         /\ mpc' = AfterHealth(health')
         /\ exit_code' = IF mpc' = "exited" THEN ExitStatus(health')
                         ELSE exit_code
    /\ UNCHANGED <<frame, loadVars, args, sync>>

\* Lines 274-276 and 308-310: test_sync_generation runs and its caller acts
\* on the outcome; run_all_tests then calls test_async_generation.
Sync ==
    /\ mpc = "sync"
    /\ \E b \in SyncBehaviours :
         /\ sync' = test_sync_generation(b)
         /\ mpc' = AfterSync(sync')
         /\ exit_code' = IF mpc' = "exited" THEN ExitStatus(sync')
                         ELSE exit_code
    /\ frame' = IF mpc' = "async" THEN NewFrame ELSE frame
    /\ UNCHANGED <<loadVars, args, health>>

\* Lines 279-285, 302 and 312-314: test_async_generation has returned or
\* raised; the process exits.
AsyncExit ==
    /\ mpc = "async" /\ frame.pc = "returned"
    /\ mpc' = "exited"
    /\ exit_code' = ExitStatus(frame.ret)
    /\ UNCHANGED <<frame, loadVars, args, health, sync>>

\* Lines 316-318: test_load has returned; the process exits.
LoadExit ==
    /\ mpc = "load" /\ pc = "done"
    /\ mpc' = "exited"
    /\ exit_code' = LoadExitStatus
    /\ UNCHANGED <<frame, loadVars, args, health, sync>>

\* The process starts with some command line.
MainInit ==
    /\ args \in ArgValues
    /\ mpc = "main" /\ health = "none" /\ sync = "none" /\ exit_code = -1
    /\ frame = IdleFrame
    /\ IdleLoad

MainNext ==
    \/ Dispatch \/ Health \/ Sync \/ AsyncExit \/ LoadExit
    \/ LifeNext \/ Next

MainSpec == MainInit /\ [][MainNext]_vars

\* =========================================================================
\* Properties of the load run (Spec)
\* =========================================================================

\* C1: after test_load has run every lifecycle (it is printing the summary
\* or has returned), success + failed equals count, whatever count, parallel,
\* the mode and the outcomes of the lifecycles were.
C1_AllCounted ==
    pc \in {"report", "done"} => success + failed = count

\* C1 witness: a finished pooled async run in which the three lifecycles
\* returned True, returned False and raised.
C1_Witness ==
    /\ pc = "done" /\ parallel > 1 /\ use_async /\ count = 3
    /\ {result[j] : j \in 1..count} = {"True", "False", "Raise"}

\* C2: for a concurrency limit of at least 1, the lifecycles that have started
\* and not yet returned never outnumber the limit.
C2_InFlightBounded ==
    parallel >= 1 => Cardinality(InFlight) <= parallel

\* C2 witness: every worker slot is taken and a submitted lifecycle waits in
\* the queue.
C2_Witness ==
    /\ parallel >= 2 /\ Cardinality(InFlight) = parallel /\ queue # <<>>

\* C9: no index is executed or counted twice, no index beyond count is
\* executed, and once the run has collected its outcomes every index 1..count
\* was executed exactly once and counted exactly once, whatever the outcomes
\* of the other lifecycles were.
C9_FailureIsolation ==
    /\ \A j \in 1..MaxCount :
         /\ runs[j] <= 1 /\ counted[j] <= runs[j]
         /\ j > count => runs[j] = 0
    /\ pc \in {"report", "done"} =>
         \A j \in 1..count :
           runs[j] = 1 /\ counted[j] = 1 /\ task[j] = "done"

\* C9 witness: a finished sequential run whose first lifecycle raised and
\* whose second returned False, followed by a lifecycle that succeeded.
C9_Witness ==
    /\ pc = "done" /\ parallel <= 1 /\ count = 3
    /\ result[1] = "Raise" /\ result[2] = "False" /\ result[3] = "True"

\* Indices whose outcome has been recorded, by outcome.
CountedWith(outcomes) ==
    {j \in 1..MaxCount : counted[j] > 0 /\ result[j] \in outcomes}

\* C11: at every moment success is the number of recorded lifecycles that
\* returned True and failed the number that returned False or raised, in
\* whatever order the results were recorded; when the run is over these are
\* all the lifecycles 1..count.
C11_NoLostIncrement ==
    /\ success = Cardinality(CountedWith({"True"}))
    /\ failed = Cardinality(CountedWith({"False", "Raise"}))
    /\ pc \in {"report", "done"} =>
         /\ success = Cardinality({j \in 1..count : result[j] = "True"})
         /\ failed = Cardinality({j \in 1..count :
                                    result[j] \in {"False", "Raise"}})

\* C11 witness: a pooled run that recorded the results of lifecycles 3 and 2
\* before the result of lifecycle 1, which is already available.
C11_Witness ==
    /\ pc = "collect" /\ count = 3 /\ yielded = {2, 3} /\ task[1] = "done"
    /\ result[3] = "True" /\ result[2] = "False" /\ result[1] = "True"
    /\ success = 1 /\ failed = 1

\* C16: with parallel = 1 at most one lifecycle is in flight, and a lifecycle
\* has started only if every lifecycle of a smaller index has returned and
\* been recorded, so the lifecycles run one at a time in the order 1..count.
C16_Sequential ==
    parallel = 1 =>
        /\ Cardinality(InFlight) <= 1
        /\ \A j \in 1..MaxCount :
             task[j] \in {"running", "done"} =>
                 /\ j <= count
                 /\ \A k \in 1..(j - 1) :
                      task[k] = "done" /\ counted[k] = 1

\* C16 witness: lifecycle 1 has failed, lifecycle 2 is running and lifecycle
\* 3 has not started.
C16_Witness ==
    /\ parallel = 1 /\ count = 3
    /\ task[1] = "done" /\ result[1] = "False"
    /\ task[2] = "running" /\ task[3] = "pending"

\* C13 as claimed: a finished run has recorded exactly count results and its
\* rate is count divided by the elapsed time, rate * duration = count.
C13_RateIsCountOverElapsed ==
    pc = "done" =>
        /\ success + failed = count
        /\ rate.num * duration = count * rate.den

\* C13 as amended: a finished run has recorded exactly count results, one
\* per index; its rate is count (successes and failures alike) divided by the
\* elapsed time when the elapsed time is positive, and 0 when the two clock
\* readings did not advance.
C13_RateGuarded ==
    pc = "done" =>
        /\ success + failed = count
        /\ \A j \in 1..count : counted[j] = 1
        /\ duration > 0 =>
             rate.den > 0 /\ rate.num * duration = count * rate.den
        /\ duration <= 0 => rate.num = 0 /\ rate.den = 1

\* C13 witness: a pooled run of three lifecycles, one of them successful,
\* that took two time units.
C13_Witness ==
    /\ pc = "done" /\ parallel > 1 /\ count = 3 /\ success = 1
    /\ duration = 2 /\ rate = [num |-> 3, den |-> 2]

\* =========================================================================
\* Properties of one async lifecycle (LifeSpec, FairLifeSpec)
\* =========================================================================

Returned == frame.pc = "returned"

\* C3: a lifecycle makes at most max_attempts status fetches, and the fetch
\* that returned completed or failed is its last one.
C3_PollingBounded ==
    /\ frame.fetches <= max_attempts
    /\ frame.srvFinal \in {"completed", "failed"} =>
         frame.fetches = frame.srvNonTerminal + 1

\* C3 witness: the 30th fetch returned failed.
C3_Witness ==
    Returned /\ frame.fetches = max_attempts /\ frame.srvFinal = "failed"

\* C4: once max_attempts status fetches have all returned a non-terminal
\* status the lifecycle has returned False from the timed-out branch (line
\* 188) without a download, and every lifecycle eventually returns.
C4_TimeoutTerminates ==
    /\ [](frame.srvNonTerminal = max_attempts =>
            /\ Returned /\ frame.ret = "False" /\ frame.line = 188
            /\ frame.fetches = max_attempts /\ frame.downloads = 0)
    /\ <>Returned

\* C4 witness: a lifecycle that saw 30 non-terminal statuses and returned.
C4_Witness ==
    Returned /\ frame.srvNonTerminal = max_attempts /\ frame.srvFinal = "none"

C6_DownloadOnce ==
    /\ frame.downloads <= 1
    /\ frame.downloads = 1 => frame.status = "completed"
    /\ Returned =>
         frame.downloads = IF frame.status = "completed" THEN 1 ELSE 0
    /\ (Returned /\ frame.submits > 0 /\ frame.status # "completed") =>
         frame.ret = "False"

\* C6 witness: the first fetch reported the job failed.
C6_Witness ==
    Returned /\ frame.fetches = 1 /\ frame.srvFinal = "failed"

\* C7: a refused or failed download makes the lifecycle return False, and a
\* lifecycle returns True only after an accepted submission, a completed
\* status and a download that returned 200.
C7_DownloadFailureFails ==
    /\ frame.srvDownload \in {"http_error", "exception", "200_write_error"} =>
         Returned /\ frame.ret = "False"
    /\ frame.ret = "True" =>
         /\ frame.srvSubmit = "accepted"
         /\ frame.status = "completed"
         /\ frame.srvDownload = "200"

\* C7 witness: polling reached completed and the download was refused.
C7_Witness ==
    /\ Returned /\ frame.status = "completed"
    /\ frame.srvDownload = "http_error"

\* C8: the submit call is made before any other call, a status fetch is made
\* only after the submit and before any download, and the download is made
\* only after the submit and at least one status fetch.
C8_CallOrder ==
    [][ /\ frame'.submits > frame.submits =>
             frame.submits = 0 /\ frame.fetches = 0 /\ frame.downloads = 0
        /\ frame'.fetches > frame.fetches =>
             frame.submits = 1 /\ frame.downloads = 0
        /\ frame'.downloads > frame.downloads =>
             frame.submits = 1 /\ frame.fetches >= 1 ]_vars

\* C8 witness: a lifecycle that submitted, fetched the status twice and
\* downloaded.
C8_Witness ==
    /\ Returned /\ frame.submits = 1 /\ frame.fetches = 2
    /\ frame.downloads = 1

\* C10: after a submission that was refused or raised, or a status fetch that
\* returned a non-200 status or raised, the lifecycle has returned False and
\* has made no call beyond the one that failed.
C10_NoRetry ==
    /\ frame.srvSubmit \in {"rejected", "exception"} =>
         /\ Returned /\ frame.ret = "False"
         /\ frame.submits = 1 /\ frame.fetches = 0 /\ frame.downloads = 0
    /\ frame.srvFinal \in {"http_error", "exception"} =>
         /\ Returned /\ frame.ret = "False"
         /\ frame.submits = 1 /\ frame.downloads = 0
         /\ frame.fetches = frame.srvNonTerminal + 1

\* C10 witness: the second status fetch returned a non-200 status.
C10_Witness ==
    /\ Returned /\ frame.srvFinal = "http_error" /\ frame.fetches = 2

\* A service that reports the job failed on the first status fetch.
JobFailedBehaviour ==
    [escapes |-> FALSE, submit |-> "accepted", polls |-> 0,
     last |-> "failed", download |-> "200"]

\* C12 as claimed: the value a timed-out lifecycle hands to its caller
\* differs from the value of a lifecycle whose job was reported failed.
C12_TimeoutDistinct ==
    (Returned /\ frame.line = 188) =>
        frame.ret # test_async_generation(JobFailedBehaviour)

\* C12 as amended: a lifecycle that exhausted the attempt bound (line 188)
\* and one whose job was reported failed (line 184) both return False, the
\* value of any job-failed lifecycle; only the return statement reached, and
\* the message it logs, differ.
C12_SameRecord ==
    /\ (Returned /\ frame.line = 188) =>
         /\ frame.srvNonTerminal = max_attempts /\ frame.srvFinal = "none"
         /\ frame.ret = "False"
         /\ frame.ret = test_async_generation(JobFailedBehaviour)
    /\ (Returned /\ frame.line = 184) =>
         frame.srvFinal = "failed" /\ frame.ret = "False"

\* C12 witness: a lifecycle that timed out while the job was still queued.
C12_Witness ==
    Returned /\ frame.line = 188 /\ frame.status = "queued"

C18_WaitBeforeFetch ==
    /\ frame.waits <= max_attempts
    /\ frame.waits = frame.fetches + (IF frame.pc = "fetch" THEN 1 ELSE 0)
    /\ frame.status \in {"completed", "failed"} =>
         frame.waits = frame.fetches
    /\ Returned => frame.waits = frame.fetches

\* C18 witness: the submission was accepted and the lifecycle has waited
\* once before its first status fetch.
C18_Witness ==
    /\ frame.pc = "fetch" /\ frame.srvSubmit = "accepted"
    /\ frame.fetches = 0 /\ frame.waits = 1

\* C19: after a status outside completed/failed/queued/processing the
\* lifecycle keeps polling; if it has returned with such a status as the last
\* one and no later fetch failed, it is the timed-out return after
\* max_attempts fetches; it never downloads on such a status.
C19_UnknownStatusPending ==
    frame.status = "unknown" =>
        /\ frame.downloads = 0
        /\ ~Returned => frame.pc \in {"sleep", "fetch"}
        /\ Returned =>
             /\ frame.ret = "False"
             /\ frame.srvFinal \in {"none", "malformed", "http_error",
                                    "exception"}
             /\ frame.srvFinal = "none" =>
                  frame.line = 188 /\ frame.fetches = max_attempts

\* C19 witness: the 30th fetch returned an unknown status and the lifecycle
\* timed out.
C19_Witness ==
    /\ Returned /\ frame.status = "unknown" /\ frame.line = 188
    /\ frame.fetches = max_attempts

\* =========================================================================
\* Properties of the process (MainSpec)
\* =========================================================================

Exited == mpc = "exited"

\* The steps of run_all_tests that were executed.
SyncRan == sync # "none"
AsyncRan == frame.pc # "idle"

\* C14 as claimed: in the full test sequence a run that ended with a step
\* left unexecuted is a run whose health check failed.
C14_OnlyHealthAborts ==
    (RunAll /\ Exited /\ (~SyncRan \/ ~AsyncRan)) => health # "True"

\* C14 as amended: in the full test sequence every step failure aborts the
\* run: a step is executed only if every earlier step passed, a failed
\* health check or a failed sync generation ends the run with status 1 and
\* nothing after it executed, and the run exits 0 only if all three passed.
C14_FirstFailureAborts ==
    RunAll =>
        /\ SyncRan => health = "True"
        /\ AsyncRan => health = "True" /\ sync = "True"
        /\ health \in {"False", "Raise"} =>
             Exited /\ exit_code = 1 /\ ~SyncRan /\ ~AsyncRan
        /\ sync \in {"False", "Raise"} =>
             Exited /\ exit_code = 1 /\ ~AsyncRan
        /\ Exited =>
             (exit_code = 0 <=>
                health = "True" /\ sync = "True" /\ frame.ret = "True")

\* C14 witness: the health check passed, the sync generation failed and the
\* run ended without the async test.
C14_Witness ==
    /\ RunAll /\ Exited /\ exit_code = 1
    /\ health = "True" /\ sync = "False" /\ ~AsyncRan

\* C15: in the full test sequence a failed health check ends the run with
\* status 1 and no generation request was made: no sync generation, no job
\* submission, no status fetch, no download, no load run.
C15_NoLoadAfterHealthFailure ==
    (RunAll /\ health \in {"False", "Raise"}) =>
        /\ Exited /\ exit_code = 1
        /\ sync = "none"
        /\ frame.submits = 0 /\ frame.fetches = 0 /\ frame.downloads = 0
        /\ frame.pc = "idle"
        /\ pc = "idle" /\ \A j \in 1..MaxCount : runs[j] = 0

\* C15 witness: the full sequence ended on a failed health probe.
C15_Witness ==
    RunAll /\ Exited /\ health = "False" /\ exit_code = 1

\* The command line selects the load run (lines 304-316: no --health, --sync
\* or --async before it).
LoadSelected ==
    /\ ~args.health /\ ~args.sync /\ ~args.async_test /\ args.load # 0

\* C20: a process whose command line selected the load run exits with status
\* 0 after test_load has finished, whatever count and the number of failed
\* lifecycles; a process that ran the single health, sync or async test
\* exits with status 1 when that test did not return True, 0 when it did.
C20_ExitStatus ==
    Exited =>
        /\ LoadSelected => pc = "done" /\ exit_code = 0
        /\ args.health => exit_code = ExitStatus(health)
        /\ (~args.health /\ args.sync) => exit_code = ExitStatus(sync)
        /\ (~args.health /\ ~args.sync /\ args.async_test) =>
             exit_code = ExitStatus(frame.ret)
        /\ (AnyTest /\ ~LoadSelected) =>
             (exit_code = 1 <=>
                \/ health \in {"False", "Raise"}
                \/ sync \in {"False", "Raise"}
                \/ frame.ret \in {"False", "Raise"})

\* C20 witness: a load run of three lifecycles that all failed exited 0.
C20_Witness ==
    /\ Exited /\ LoadSelected /\ count = 3 /\ failed = 3 /\ success = 0
    /\ exit_code = 0

=============================================================================
